---- MODULE Spec2Model ----
(***************************************************************************)
(* Session negotiation client of the Software-Defined-Truck repository:    *)
(* BrokerHandle (the duplex control channel), SSS3 (the session            *)
(* controller and the multicast data plane).                               *)
(*                                                                         *)
(* Every method is one action.  A method is computed by an operator that   *)
(* takes the object state as a record `s`, follows the statements of the   *)
(* method in order and returns the record after the call.  The fields exc, *)
(* ret, val, reqs, statuses, attempts and reads of that record describe    *)
(* the call itself: the exception that left it ("none" when it returned),  *)
(* its return value, the requests it wrote to the control connection, the  *)
(* response statuses it read, the connection attempts it made and the      *)
(* socket reads it performed.  What the broker, the network and the        *)
(* operating system decide is an input of the action.                      *)
(***************************************************************************)
EXTENDS Integers, Sequences, FiniteSets, TLC

(* ------------------------------ bounds -------------------------------- *)
NumIPs == 1          \* IPv4 group addresses 1..NumIPs; NumIPs+1 is a string that is no IPv4 address
MaxPort == 1         \* ports 0..MaxPort
NumIDs == 2          \* device IDs 1..NumIDs
MaxDevices == 2      \* longest device list
MaxTimeouts == 3     \* receive timeouts counted
MaxClock == 52       \* the last second of the clock of the time client
MaxPolling == 5      \* the largest polling exponent reached by timeouts

(* --------------------------- program values --------------------------- *)
UnsetIP == 0         \* the sentinel `IPv4Address` (the class itself) of __init__ and do_DELETE
FrameSize == 20      \* len(data) == 20 in receive: the size of the CARLA struct
RecvSize == 20       \* key.fileobj.recv(20)
LongTimeout == 400   \* sock.settimeout(0.4) of __set_mcast_options, in milliseconds
ShortTimeout == 40   \* key.fileobj.settimeout(0.04) of receive, in milliseconds
BufferSize == 8      \* range(8): the peer updates kept by Time_Client
InitialPolling == 3  \* self._polling_interval = 3
PollingTarget == 4   \* the exponent that __set_polling_interval steers to after a response
RequestTimeout == 3  \* (now - self._last_sent) >= 3
MaxSize == 1000000   \* stands for sys.maxsize: larger than every delay and offset of a packet
StartClock == 32     \* time.time() when the time client is built

Keys == {"IP", "CAN_PORT", "CARLA_PORT"}
Statuses == {199, 200, 300, 400}
Methods == {"POST", "DELETE", "PUT", "post", "delete"}
Handles == {"ctrl", "can", "carla"}
Threads == {1, 2}

VARIABLES
    selector_lock,    \* BrokerHandle.selector_lock: "Lock", or "str" (what SSS3.__init__ passes)
    server_address,   \* BrokerHandle.server_address: "valid", or "invalid" (http.client.InvalidURL)
    ctrl,             \* BrokerHandle.ctrl and its socket: "none" | "unconnected" | "open" | "closed"
    http,             \* request state of the HTTPConnection: "Idle" | "Busy" (a request without getresponse)
    reg,              \* handles registered in the selector
    mcast_IP,         \* BrokerHandle.mcast_IP
    can_port,         \* BrokerHandle.can_port
    carla_port,       \* BrokerHandle.carla_port
    close_connection, \* BrokerHandle.close_connection
    command,          \* BrokerHandle.command ("none": never set, or None after a bad request line)
    can,              \* SSS3.can socket: "open" | "closed"
    carla,            \* SSS3.carla socket: "open" | "closed"
    listen,           \* SSS3.listen
    src,              \* history: the setup body the three parameters were last taken from (<<>>: none)
    call,             \* the last call: its operation, arguments and outcome
    prev,             \* the outcome of the call before it, when that call was stop()
    dropped_messages, \* SSS3.dropped_messages
    timeouts,         \* SSS3.timeouts
    can_timeout,      \* the receive timeout of the CAN socket in milliseconds (0: none, it blocks)
    clock,            \* time.time(), in seconds
    _is_setup, _ip_translated, _server, _polling_interval, _status, _last_sent, _last_update,
    _buffer, _index, _previous_clock_update, _offset,   \* the fields of Time_Client
    tcall,            \* the last call on the time client
    thr,              \* per thread: the statement it is at and the call it is in
    lockOwner,        \* the thread that holds selector_lock (0: free)
    readable          \* a registered socket has bytes to read

vars == <<selector_lock, server_address, ctrl, http, reg, mcast_IP, can_port, carla_port,
          close_connection, command, can, carla, listen, src, call, prev,
          dropped_messages, timeouts, can_timeout, thr, lockOwner, readable,
          clock, _is_setup, _ip_translated, _server, _polling_interval, _status, _last_sent,
          _last_update, _buffer, _index, _previous_clock_update, _offset, tcall>>

(* ------------------------------ inputs -------------------------------- *)
IPStrings == 1..(NumIPs + 1)
IsIPv4(x) == x \in 1..NumIPs
Ports == 0..MaxPort

\* A pushed or embedded body: bytes that are no JSON, or a JSON object with some of the keys.
\* The value of an absent key is fixed (it is never read).
Bodies ==
    {[json |-> FALSE, keys |-> {}, IP |-> 1, CAN_PORT |-> 0, CARLA_PORT |-> 0]}
    \cup {b \in [json : {TRUE}, keys : SUBSET Keys, IP : IPStrings, CAN_PORT : Ports, CARLA_PORT : Ports] :
            /\ ("IP" \notin b.keys => b.IP = 1)
            /\ ("CAN_PORT" \notin b.keys => b.CAN_PORT = 0)
            /\ ("CARLA_PORT" \notin b.keys => b.CARLA_PORT = 0)}

NoBody == [json |-> FALSE, keys |-> {}, IP |-> 1, CAN_PORT |-> 0, CARLA_PORT |-> 0]

\* What recv(4096) returns on the control socket: a request (method, Connection header, body;
\* only do_POST reads the body), no bytes at all (the peer closed), or bytes whose first line
\* is no request line.
Pushes ==
    {[kind |-> "request", method |-> "POST", close |-> c, body |-> b] : c \in BOOLEAN, b \in Bodies}
    \cup {[kind |-> "request", method |-> m, close |-> c, body |-> NoBody] :
            m \in Methods \ {"POST"}, c \in BOOLEAN}
    \cup {[kind |-> k, method |-> "PUT", close |-> FALSE, body |-> NoBody] : k \in {"empty", "garbage"}}

\* A device descriptor (ID and one more field) and an array element that is no descriptor (ID 0).
Descriptors == [ID : 1..NumIDs, make : {"a", "b"}]
BadItem == [ID |-> 0, make |-> "a"]

RECURSIVE SeqsUpTo(_, _)
SeqsUpTo(S, n) ==
    IF n = 0 THEN {<<>>}
    ELSE LET shorter == SeqsUpTo(S, n - 1)
         IN  shorter \cup {Append(q, x) : q \in {t \in shorter : Len(t) = n - 1}, x \in S}

DeviceLists == SeqsUpTo(Descriptors, MaxDevices)

\* The body of the answer to GET /sss3: bytes that are no JSON, the object {}, a number, or
\* an array (empty, of descriptors, or with an element that is no descriptor).
OneDevice == [ID |-> 1, make |-> "a"]
DeviceBodies ==
    {[kind |-> k, items |-> <<>>] : k \in {"notjson", "object", "scalar"}}
    \cup {[kind |-> "array", items |-> q] :
            q \in {<<>>, <<OneDevice>>, <<BadItem>>, <<OneDevice, BadItem>>}}

SendOutcomes == {"ok", "OSError"}
WaitOutcomes == {"ready", "interrupt"}
ShutOutcomes == {"ok", "OSError"}

\* What one recv on the CAN socket meets: a datagram of some length, or no datagram within
\* the timeout of the socket.
DatagramSizes == {0, 18, 20, 24}
ReceiveEvents ==
    {[kind |-> "timeout", size |-> 0]} \cup {[kind |-> "datagram", size |-> n] : n \in DatagramSizes}

(* ----------------------- the record of a call ------------------------- *)
Cur ==
    [ctrl |-> ctrl, http |-> http, reg |-> reg, mcast_IP |-> mcast_IP, can_port |-> can_port,
     carla_port |-> carla_port, close_connection |-> close_connection, command |-> command,
     can |-> can, carla |-> carla, listen |-> listen, src |-> src,
     dropped_messages |-> dropped_messages, timeouts |-> timeouts, can_timeout |-> can_timeout,
     exc |-> "none", ret |-> "None", val |-> <<>>, reqs |-> <<>>, statuses |-> <<>>,
     attempts |-> 0, reads |-> <<>>, ran |-> <<>>]

Raise(s, e) == [s EXCEPT !.exc = e]
Return(s, r) == [s EXCEPT !.ret = r]
Caught(s) == [s EXCEPT !.exc = "none"]
\* The trace of a call of the controller: start and stop when they are entered, the steps
\* of setup() with what they gave.
Ran(s, f) == [s EXCEPT !.ran = Append(@, f)]

Request(method, path, ecus) == [method |-> method, path |-> path, ecus |-> ecus]

(* ===================== BrokerHandle (BrokerHandle.py) ================== *)

\* A connection object that writes a request while an earlier one has no getresponse yet.
CtrlRequestPipelines(s, method, path, ecus, o) ==
    IF s.ctrl = "none" THEN Raise(s, "AttributeError")
    ELSE IF s.ctrl = "closed" \/ o = "OSError"
         THEN Raise([s EXCEPT !.http = "Busy"], "OSError")
    ELSE [s EXCEPT !.ctrl = "open", !.http = "Busy",
                   !.reqs = Append(@, Request(method, path, ecus))]

\* self.ctrl.request(method, path, ...).  http.client refuses a request while an earlier one
\* has no getresponse yet (CannotSendRequest, an HTTPException); a socket that
\* shutdown_connection closed fails the write (OSError); a connection object without a
\* socket opens one first.  o: what the transport does with the write.
CtrlRequest(s, method, path, ecus, o) ==
    IF s.ctrl = "none" THEN Raise(s, "AttributeError")
    ELSE IF s.http = "Busy" THEN Raise(s, "HTTPException")
    ELSE IF s.ctrl = "closed" \/ o = "OSError"
         THEN Raise([s EXCEPT !.http = "Busy"], "OSError")
    ELSE [s EXCEPT !.ctrl = "open", !.http = "Busy",
                   !.reqs = Append(@, Request(method, path, ecus))]

\* response = self.ctrl.getresponse(); response.read(...): a read of the control socket.
GetResponse(s, status) ==
    [s EXCEPT !.http = "Idle", !.statuses = Append(@, status),
              !.reads = Append(@, [sock |-> "ctrl", state |-> s.ctrl])]

\* connect(False): one attempt.  The constructor raises InvalidURL (an HTTPException) for an
\* address it cannot parse, before self.ctrl is assigned; connect() on the new object raises
\* OSError when the transport fails.
ConnectNoRetry(s, c) ==
    LET n == [s EXCEPT !.attempts = @ + 1] IN
    IF server_address = "invalid" THEN Return(n, "False")
    ELSE LET fresh == [n EXCEPT !.ctrl = "unconnected", !.http = "Idle", !.reg = @ \ {"ctrl"}]
         IN  IF c = "ok" THEN Return([fresh EXCEPT !.ctrl = "open"], "True")
             ELSE Raise(fresh, "OSError")

\* connect(retry=True): the second attempt is made only after an HTTPException.
Connect(s, c1, c2) ==
    LET n == [s EXCEPT !.attempts = @ + 1] IN
    IF server_address = "invalid" THEN ConnectNoRetry(n, c2)
    ELSE LET fresh == [n EXCEPT !.ctrl = "unconnected", !.http = "Idle", !.reg = @ \ {"ctrl"}]
         IN  IF c1 = "ok" THEN Return([fresh EXCEPT !.ctrl = "open"], "True")
             ELSE Raise(fresh, "OSError")

\* __wait_for_socket(timeout=None).  `with self.selector_lock` fails on a str (TypeError;
\* AttributeError before Python 3.11), which neither except clause catches.  With a Lock the
\* select returns once a registered socket is readable (True); KeyboardInterrupt gives False.
\* With nothing registered the select can only end by the interrupt.
WaitForSocket(s, w) ==
    IF selector_lock = "str" THEN Raise(s, "TypeError")
    ELSE IF w = "ready" /\ s.reg # {} THEN Return(s, "True")
    ELSE Return(s, "False")

\* A registration that goes on when the socket is already in the table.
SubmitRegistrationOverwrites(s, o, w, status) ==
    LET a == CtrlRequest(s, "POST", "/client/register", <<>>, o) IN
    IF a.exc = "HTTPException" THEN Return(Caught(a), "None")
    ELSE IF a.exc # "none" THEN a
    ELSE LET c == WaitForSocket([a EXCEPT !.reg = @ \cup {"ctrl"}], w) IN
         IF c.exc # "none" THEN c
         ELSE IF c.ret = "True" THEN Return(GetResponse(c, status), "response")
         ELSE Return(c, "None")

\* __submit_registration: the response, or None.
SubmitRegistration(s, o, w, status) ==
    LET a == CtrlRequest(s, "POST", "/client/register", <<>>, o) IN
    IF a.exc = "HTTPException" THEN Return(Caught(a), "None")
    ELSE IF a.exc # "none" THEN a
    ELSE IF "ctrl" \in a.reg THEN Raise(a, "KeyError")
    ELSE LET c == WaitForSocket([a EXCEPT !.reg = @ \cup {"ctrl"}], w) IN
         IF c.exc # "none" THEN c
         ELSE IF c.ret = "True" THEN Return(GetResponse(c, status), "response")
         ELSE Return(c, "None")

\* register(False)
RegisterNoRetry(s, o, w, status) ==
    LET a == SubmitRegistration(s, o, w, status) IN
    IF a.exc # "none" THEN a
    ELSE IF a.ret = "None" THEN Raise(a, "AttributeError")
    ELSE IF status >= 200 /\ status < 400 THEN Return(a, "True")
    ELSE Return(a, "False")

\* register(retry=True)
Register(s, o1, w1, status1, o2, w2, status2) ==
    LET a == SubmitRegistration(s, o1, w1, status1) IN
    IF a.exc # "none" THEN a
    ELSE IF a.ret = "None" THEN Raise(a, "AttributeError")
    ELSE IF status1 >= 200 /\ status1 < 400 THEN Return(a, "True")
    ELSE RegisterNoRetry(a, o2, w2, status2)

\* The device-list schema (RequestECUs.json): an array of device descriptors.
RequestSchemaValid(items) == \A k \in 1..Len(items) : items[k] \in Descriptors

\* __deserialize_device_list: val is the value returned, ret its type.
DeserializeDeviceList(s, body) ==
    IF body.kind = "notjson" THEN [Return(s, "list") EXCEPT !.val = <<>>]
    ELSE IF body.kind = "scalar" THEN Raise(s, "TypeError")
    ELSE IF body.kind = "object" THEN [Return(s, "dict") EXCEPT !.val = <<>>]
    ELSE IF Len(body.items) > 0 /\ ~RequestSchemaValid(body.items)
         THEN [Return(s, "list") EXCEPT !.val = <<>>]
    ELSE [Return(s, "list") EXCEPT !.val = body.items]

\* __validate_device_list_response
ValidateDeviceListResponse(s, status, body) ==
    IF status >= 200 /\ status < 400 THEN DeserializeDeviceList(s, body)
    ELSE [Return(s, "list") EXCEPT !.val = <<>>]

\* get_devices
GetDevices(s, o, w, status, body) ==
    LET a == CtrlRequest(s, "GET", "/sss3", <<>>, o) IN
    IF a.exc = "HTTPException" THEN Return(Caught(a), "None")
    ELSE IF a.exc # "none" THEN a
    ELSE LET c == WaitForSocket(a, w) IN
         IF c.exc # "none" THEN c
         ELSE IF c.ret = "True" THEN ValidateDeviceListResponse(GetResponse(c, status), status, body)
         ELSE Return(c, "None")

\* The session-info schema (SessionInformation.json): the three keys are required.
SessionSchemaValid(body) == Keys \subseteq body.keys

\* do_DELETE
DoDELETE(s) ==
    [s EXCEPT !.mcast_IP = UnsetIP, !.can_port = 0, !.carla_port = 0, !.src = <<>>]

\* A handler that falls back to the unset parameters when a push fails validation.
MalformedPushResets(s) ==
    Raise(DoDELETE([s EXCEPT !.close_connection = TRUE]), "SyntaxError")

\* The three except clauses of do_POST: each sets the flag and raises SyntaxError.
MalformedPush(s) == Raise([s EXCEPT !.close_connection = TRUE], "SyntaxError")

\* A handler that stores the ports before it parses the address.
DoPOSTPortsFirst(s, body) ==
    IF ~body.json THEN MalformedPush(s)
    ELSE IF ~SessionSchemaValid(body) THEN MalformedPush(s)
    ELSE LET a == [s EXCEPT !.can_port = body.CAN_PORT, !.carla_port = body.CARLA_PORT] IN
         IF ~IsIPv4(body.IP) THEN MalformedPush(a)
         ELSE [a EXCEPT !.mcast_IP = body.IP, !.src = <<body>>]

\* do_POST on the body in self.rfile: the three assignments follow the three validations.
DoPOST(s, body) ==
    IF ~body.json THEN MalformedPush(s)
    ELSE IF ~SessionSchemaValid(body) THEN MalformedPush(s)
    ELSE IF ~IsIPv4(body.IP) THEN MalformedPush(s)
    ELSE [s EXCEPT !.mcast_IP = body.IP, !.can_port = body.CAN_PORT,
                   !.carla_port = body.CARLA_PORT, !.src = <<body>>]

\* A filter that collects the selected descriptors last to first.
RECURSIVE req_to_ecu_list_reversed(_, _)
req_to_ecu_list_reversed(devices, requested_devices) ==
    IF devices = <<>> THEN <<>>
    ELSE LET i == Head(devices)
             rest == req_to_ecu_list_reversed(Tail(devices), requested_devices)
         IN  IF i.ID \in requested_devices THEN rest \o <<i>> ELSE rest

\* [i for i in devices if i["ID"] in requested_devices]
RECURSIVE req_to_ecu_list(_, _)
req_to_ecu_list(devices, requested_devices) ==
    IF devices = <<>> THEN <<>>
    ELSE LET i == Head(devices)
             rest == req_to_ecu_list(Tail(devices), requested_devices)
         IN  IF i.ID \in requested_devices THEN <<i>> \o rest ELSE rest

\* __validate_request_device_response
ValidateRequestDeviceResponse(s, status, body) ==
    IF status >= 200 /\ status < 300
    THEN LET a == DoPOST(s, body) IN IF a.exc # "none" THEN a ELSE Return(a, "True")
    ELSE Return(s, "False")

\* request_devices
RequestDevices(s, requested_devices, devices, o, w, status, body) ==
    LET a == CtrlRequest(s, "POST", "/client/session",
                         req_to_ecu_list(devices, requested_devices), o) IN
    IF a.exc = "HTTPException" THEN Return(Caught(a), "False")
    ELSE IF a.exc # "none" THEN a
    ELSE LET c == WaitForSocket(a, w) IN
         IF c.exc # "none" THEN c
         ELSE IF c.ret = "True"
              THEN ValidateRequestDeviceResponse(GetResponse(c, status), status, body)
         ELSE Return(c, "None")

SetSock(s, h, v) ==
    IF h = "ctrl" THEN [s EXCEPT !.ctrl = v]
    ELSE IF h = "can" THEN [s EXCEPT !.can = v]
    ELSE [s EXCEPT !.carla = v]

\* A closure that leaves the socket in the selector.
ShutdownConnectionKeepsKey(s, h, shut) ==
    IF h \notin s.reg THEN Raise(s, "KeyError")
    ELSE IF shut = "OSError" THEN Raise(s, "OSError") ELSE SetSock(s, h, "closed")

\* shutdown_connection(key), key.fileobj = h: unregister (KeyError when h is not registered),
\* shutdown (OSError when the socket is not connected), close.
ShutdownConnection(s, h, shut) ==
    IF h \notin s.reg THEN Raise(s, "KeyError")
    ELSE LET u == [s EXCEPT !.reg = @ \ {h}] IN
         IF shut = "OSError" THEN Raise(u, "OSError") ELSE SetSock(u, h, "closed")

\* handle_one_request of BaseHTTPRequestHandler on the bytes of one push (__handle_SSE).
\* parse_request stores the method in self.command and sets close_connection from the
\* Connection header; a method without a do_ handler is answered by send_error(501), whose
\* "Connection: close" header sets the flag.
HandleSSE(s, p) ==
    IF p.kind = "empty" THEN [s EXCEPT !.close_connection = TRUE]
    ELSE IF p.kind = "garbage" THEN [s EXCEPT !.close_connection = TRUE, !.command = "none"]
    ELSE LET a == [s EXCEPT !.command = p.method, !.close_connection = p.close] IN
         IF p.method = "POST" THEN DoPOST(a, p.body)
         ELSE IF p.method = "DELETE" THEN DoDELETE(a)
         ELSE [a EXCEPT !.close_connection = TRUE]

\* receive_SSE(key): recv on self.ctrl.sock, the handler, then the closure when flagged.
ReceiveSSE(s, p, shut) ==
    IF s.ctrl \in {"none", "unconnected"} THEN Raise(s, "AttributeError")
    ELSE LET r == [s EXCEPT !.reads = Append(@, [sock |-> "ctrl", state |-> s.ctrl])] IN
         IF s.ctrl = "closed" THEN Raise(r, "OSError")
         ELSE LET a == HandleSSE(r, p) IN
              IF a.exc # "none" THEN a
              ELSE IF a.close_connection THEN ShutdownConnection(a, "ctrl", shut)
              ELSE a

\* The try / except / else of send_delete: the record when the finally clause is entered
\* (exc: the exception in flight).
SendDeleteTry(s, path, o, w, status) ==
    LET a == CtrlRequest(s, "DELETE", path, <<>>, o)
        m == IF a.exc # "none" THEN a
             ELSE IF selector_lock = "str" THEN Raise(a, "TypeError")
             ELSE IF "ctrl" \notin a.reg THEN Raise(a, "KeyError")
             ELSE a
    IN  IF m.exc = "HTTPException" THEN Return(Caught(m), "None")
        ELSE IF m.exc # "none" THEN Return(m, "None")
        ELSE LET c == WaitForSocket(m, w) IN
             IF c.exc # "none" THEN Return(c, "None")
             ELSE IF c.ret = "True" THEN Return(GetResponse(c, status), "response")
             ELSE Return(c, "None")

\* The finally clause of send_delete with close=True, up to the return:
\* get_key (KeyError when the socket is not registered), shutdown_connection, do_DELETE.
SendDeleteClose(t, shut) ==
    IF t.ctrl = "none" THEN Raise(t, "AttributeError")
    ELSE IF "ctrl" \notin t.reg THEN Raise(t, "KeyError")
    ELSE LET d == ShutdownConnection(t, "ctrl", shut) IN
         IF d.exc # "none" THEN d ELSE DoDELETE(d)

\* A send_delete that cleans up only after a response.
SendDeleteCleanupAfterResponse(s, path, close, o, w, status, shut) ==
    LET t == SendDeleteTry(s, path, o, w, status) IN
    IF close /\ t.exc = "none" /\ t.ret = "response"
    THEN SendDeleteClose(Caught(t), shut) ELSE Caught(t)

\* send_delete(path, close): `return response` in the finally clause discards whatever
\* exception the try statement left in flight; an exception of the finally clause itself
\* leaves the method.
SendDelete(s, path, close, o, w, status, shut) ==
    LET t == SendDeleteTry(s, path, o, w, status) IN
    IF close THEN SendDeleteClose(Caught(t), shut) ELSE Caught(t)

(* ============================ SSS3 (SSS3.py) =========================== *)

\* start(mcast_IP, can_port, carla_port): after the two messages, line 162 calls the bound
\* method __set_mcast_options with `self` once more, five arguments for four parameters:
\* TypeError, before any socket option is set and before any socket is registered.
Start(s) == Raise(Ran(s, "start"), "TypeError")

\* Lines 189-194 and 195-200 of stop(): unregister the socket (KeyError when it is not
\* registered), shut it down (OSError on a socket that is not connected), close it.
StopSocket(s, h, shut) ==
    IF h \notin s.reg THEN Raise(s, "KeyError")
    ELSE LET u == [s EXCEPT !.reg = @ \ {h}] IN
         IF shut = "OSError" THEN Raise(u, "OSError") ELSE SetSock(u, h, "closed")

\* stop()
Stop(s, o1, w1, status1, o2, w2, status2, shut, shutCan, shutCarla) ==
    LET a == SendDelete(Ran([s EXCEPT !.listen = FALSE], "stop"), "/session", FALSE,
                        o1, w1, status1, shut)
        b == IF a.exc # "none" THEN a
             ELSE SendDelete(a, "/client/register", TRUE, o2, w2, status2, shut)
        c == IF b.exc # "none" THEN b ELSE StopSocket(b, "can", shutCan)
        d == IF c.exc # "none" THEN c ELSE StopSocket(c, "carla", shutCarla)
    IN  Return(d, "None")

\* self.broker.command.lower()
Lower(m) == IF m \in {"POST", "post"} THEN "post"
            ELSE IF m \in {"DELETE", "delete"} THEN "delete"
            ELSE IF m = "none" THEN "none" ELSE "put"

\* __receive_SSE(key): SyntaxError is swallowed; otherwise the pushed method decides.
ReceiveSSECallback(s, p, shut, o1, o2, shutCan, shutCarla) ==
    LET a == ReceiveSSE(s, p, shut) IN
    IF a.exc = "SyntaxError" THEN Return(Caught(a), "None")
    ELSE IF a.exc # "none" THEN a
    ELSE IF Lower(a.command) = "none" THEN Raise(a, "AttributeError")
    ELSE IF Lower(a.command) = "post" THEN Start(a)
    ELSE IF Lower(a.command) = "delete"
         THEN Stop(a, o1, "ready", 200, o2, "ready", 200, shut, shutCan, shutCarla)
    ELSE Return(a, "None")

\* __request_devices(requestedECUs): request_devices is called with one argument for its two
\* parameters: TypeError before anything is sent.
SSS3RequestDevices(s, requestedECUs) == Raise(s, "TypeError")

\* __print_devices(devices), reached with a list that is not empty:
\* `for ecu in i` iterates over the int i.
PrintDevices(s) == Raise(s, "TypeError")

\* __select_devices(devices): ret and val are what get_devices returned.
SelectDevices(s, ret, val) ==
    IF ret = "None" THEN Raise(s, "TypeError")
    ELSE IF Len(val) > 0 THEN PrintDevices(s)
    ELSE Return(s, "None")

\* The outcome of a step of setup(), for the trace of the call.
Outcome(f, r) == IF r.exc = "none" /\ r.ret = "True" THEN f ELSE f \o " failed"

\* A setup() that goes on to the next step whatever the last one gave.
SetupGoesOn(s, c1, c2, o1, w1, status1, o2, w2, status2, o3, w3, status3, body) ==
    LET a0 == Connect(s, c1, c2)
        a == Caught(Ran(a0, Outcome("connect", a0)))
        b0 == Register(a, o1, w1, status1, o2, w2, status2)
        b == Caught(Ran(b0, Outcome("register", b0)))
        g == GetDevices(Ran(b, "get_devices"), o3, w3, status3, body)
    IN  IF g.exc # "none" THEN g
        ELSE SelectDevices([g EXCEPT !.val = <<>>, !.ret = "None"], g.ret, g.val)

\* setup()
Setup(s, c1, c2, o1, w1, status1, o2, w2, status2, o3, w3, status3, body) ==
    LET a0 == Connect(s, c1, c2)
        a == Ran(a0, Outcome("connect", a0))
    IN
    IF a.exc # "none" THEN a
    ELSE IF a.ret # "True" THEN Return(a, "None")
    ELSE LET b0 == Register(a, o1, w1, status1, o2, w2, status2)
             b == Ran(b0, Outcome("register", b0))
         IN
         IF b.exc # "none" THEN b
         ELSE IF b.ret # "True" THEN Return(b, "None")
         ELSE LET g == GetDevices(Ran(b, "get_devices"), o3, w3, status3, body) IN
              IF g.exc # "none" THEN g
              ELSE SelectDevices([g EXCEPT !.val = <<>>, !.ret = "None"], g.ret, g.val)

\* A receive that counts a timeout in `timeouts` only.
ReceiveCountsOnce(s, e) ==
    LET r == [s EXCEPT !.reads = Append(@, [sock |-> "can", state |-> s.can])] IN
    IF s.can = "closed" THEN Raise(r, "OSError")
    ELSE IF e.kind = "timeout"
         THEN [r EXCEPT !.can_timeout = ShortTimeout, !.timeouts = @ + 1]
    ELSE IF (IF e.size < RecvSize THEN e.size ELSE RecvSize) = FrameSize
         THEN Return(r, "decoded")
    ELSE Return(r, "None")

\* receive(key) with the CAN socket as key.fileobj.  recv(20) returns at most 20 bytes of the
\* datagram and the rest of a longer one is discarded; "decoded": lines 217-218 ran.
Receive(s, e) ==
    LET r == [s EXCEPT !.reads = Append(@, [sock |-> "can", state |-> s.can])] IN
    IF s.can = "closed" THEN Raise(r, "OSError")
    ELSE IF e.kind = "timeout"
         THEN [r EXCEPT !.can_timeout = ShortTimeout,
                        !.dropped_messages = @ + 1, !.timeouts = @ + 1]
    ELSE IF (IF e.size < RecvSize THEN e.size ELSE RecvSize) = FrameSize
         THEN Return(r, "decoded")
    ELSE Return(r, "None")

\* send(key): `self.mcast_ip` in line 206 is an attribute that SSS3 never has.
Send(s) == Raise(s, "AttributeError")

\* __listen(_timeout): the call ends when the flag is cleared, on KeyboardInterrupt, or by
\* the exception of a dispatch; a poll that times out only repeats the loop.  The
\* registrations that the code can reach (line 76 of BrokerHandle.py, and modify in line
\* 227) carry no data, so `key.data.callback` fails for every ready key: the registrations
\* with a callback (lines 113, 164 and 171 of SSS3.py) follow statements that always raise.
Listen(s, events) ==
    IF ~s.listen THEN Return(s, "None")
    ELSE IF events # {} THEN Raise(s, "AttributeError")
    ELSE Return(s, "None")

(* ===================== Time_Client (Time_Client.py) =================== *)
timeVars == <<clock, _is_setup, _ip_translated, _server, _polling_interval, _status,
              _last_sent, _last_update, _buffer, _index, _previous_clock_update, _offset, tcall>>

\* ntp_stats of __init__
NtpStats == [Delay |-> MaxSize, Offset |-> MaxSize, Time |-> 0, Used |-> FALSE]

\* What recvfrom(256) returns: the sender, and what NTPStats.from_data makes of the bytes
\* (NTPException for bytes that are no NTP packet; delay and offset otherwise).
Delays == {2, 4}
Offsets == {-20, 0, 2}
Packets ==
    {[addr |-> a, valid |-> TRUE, delay |-> d, offset |-> o] :
        a \in {"server", "other"}, d \in Delays, o \in Offsets}
    \cup {[addr |-> a, valid |-> FALSE, delay |-> 0, offset |-> 0] : a \in {"server", "other"}}
NoPacket == [addr |-> "none", valid |-> FALSE, delay |-> 0, offset |-> 0]

\* The time client as a call finds it, and what the call gave: exc, whether it wrote a
\* request (sent), and for readNTPPacket the entry chosen (pui), whether it was marked Used
\* before, and the adjustment.
TCur ==
    [clock |-> clock, _is_setup |-> _is_setup, _ip_translated |-> _ip_translated,
     _server |-> _server, _polling_interval |-> _polling_interval, _status |-> _status,
     _last_sent |-> _last_sent, _last_update |-> _last_update, _buffer |-> _buffer,
     _index |-> _index, _previous_clock_update |-> _previous_clock_update, _offset |-> _offset,
     exc |-> "none", sent |-> 0, pui |-> -1, used |-> FALSE, peer_update |-> 0]

TimePre ==
    [_status |-> _status, _polling_interval |-> _polling_interval, _last_sent |-> _last_sent,
     _last_update |-> _last_update, _buffer |-> _buffer, _index |-> _index,
     _previous_clock_update |-> _previous_clock_update, _offset |-> _offset]

NoTimeCall ==
    [op |-> "init", now |-> 0, packet |-> NoPacket, exc |-> "none", sent |-> 0, pui |-> -1,
     used |-> FALSE, peer_update |-> 0,
     pre |-> [_status |-> "NotSet", _polling_interval |-> InitialPolling, _last_sent |-> 0,
              _last_update |-> 0, _buffer |-> [i \in 0..(BufferSize - 1) |-> NtpStats],
              _index |-> 0, _previous_clock_update |-> 0, _offset |-> 0]]

\* The time client after __init__: __get_addr_info found the address of a server, or none
\* could be resolved and the host name stands in for the address (lines 64-65).
InitTime ==
    /\ clock = StartClock
    /\ _is_setup = FALSE
    /\ _ip_translated \in BOOLEAN
    /\ _server = (IF _ip_translated THEN "ip" ELSE "name")
    /\ _polling_interval = InitialPolling
    /\ _status = "NotSet"
    /\ _last_sent = 0
    /\ _last_update = 0
    /\ _buffer = [i \in 0..(BufferSize - 1) |-> NtpStats]
    /\ _index = 0
    /\ _previous_clock_update = 0
    /\ _offset = 0
    /\ tcall = NoTimeCall

\* The time client where no call of it has been made and the address was resolved.
TimeIdle == InitTime /\ _ip_translated

\* __set_polling_interval
SetPollingInterval(s) ==
    IF s._status = "Received"
    THEN (IF s._polling_interval < PollingTarget
          THEN [s EXCEPT !._polling_interval = @ + 1]
          ELSE IF s._polling_interval > PollingTarget
               THEN [s EXCEPT !._polling_interval = PollingTarget]
          ELSE s)
    ELSE IF s._status = "Timedout" THEN [s EXCEPT !._polling_interval = @ + 1]
    ELSE s

\* __writeNTPPacket(self._server).  o: what sendto does; r: whether the name of the server
\* resolves in __get_addr_info.  `return sent` in the finally clause reads a local that
\* is unbound whenever sendto raised, so both failures end in UnboundLocalError; only the
\* gaierror handler has set the status before.
WriteNTPPacket(s, o, r) ==
    IF o = "gaierror" THEN [s EXCEPT !._status = "Timedout", !.exc = "UnboundLocalError"]
    ELSE IF o = "OSError" THEN [s EXCEPT !.exc = "UnboundLocalError"]
    ELSE LET a == IF s._ip_translated THEN s
                  ELSE [s EXCEPT !._ip_translated = r,
                                 !._server = IF r THEN "ip" ELSE "name"]
         IN  [a EXCEPT !._status = "Sent", !._last_sent = s.clock, !.sent = @ + 1]

\* __set_peer_update(response, now)
SetPeerUpdate(s, p, now) ==
    [s EXCEPT !._buffer[s._index] =
        [Delay |-> p.delay, Offset |-> p.offset, Time |-> now, Used |-> FALSE]]

\* The loop of __get_peer_update from i on: the index pui after it.
RECURSIVE Scan(_, _, _)
Scan(s, pui, i) ==
    IF i = BufferSize THEN pui
    ELSE LET small_delay == s._buffer[i].Delay < s._buffer[pui].Delay
             recent == s._buffer[i].Time >= s._previous_clock_update
         IN  Scan(s, IF small_delay /\ recent THEN i ELSE pui, i + 1)

\* __get_peer_update: the value returned is in peer_update.  The delays of Packets are
\* even, so the halves are whole.
GetPeerUpdate(s) ==
    LET pui == Scan(s, s._index, 0)
        delay0 == s._buffer[s._index].Delay
        offset0 == s._buffer[s._index].Offset
        delay1 == s._buffer[pui].Delay
        offset1 == s._buffer[pui].Offset
        peer_update ==
            IF s._buffer[pui].Used THEN 0
            ELSE IF offset0 > offset1 THEN offset1 - ((delay0 - delay1) \div 2)
            ELSE IF offset0 < offset1 THEN offset1 + ((delay0 - delay1) \div 2)
            ELSE offset1
    IN  [s EXCEPT !.pui = pui, !.used = s._buffer[pui].Used, !.peer_update = peer_update,
                  !._buffer[pui].Used = TRUE,
                  !._previous_clock_update = s._buffer[pui].Time]

\* readNTPPacket(key) on the datagram p
ReadNTPPacket(s, p) ==
    IF (p.addr = "server" /\ s._server = "ip") /\ s._status = "Sent"
    THEN LET now == s.clock
             a == SetPollingInterval([s EXCEPT !._status = "Received", !._last_update = now])
         IN  IF ~p.valid THEN [a EXCEPT !.exc = "NTPException"]
             ELSE LET b == GetPeerUpdate(SetPeerUpdate(a, p, now + a._offset))
                  IN  [b EXCEPT !._offset = @ + b.peer_update,
                                !._index = (@ + 1) % BufferSize]
    ELSE s

\* The statements of update(now) after the call of setup (lines 176-186).
UpdateBody(s, now, o, r) ==
    LET a == IF s._status = "Sent"
             THEN (IF (now - s._last_sent) >= RequestTimeout
                   THEN [s EXCEPT !._status = "Timedout"] ELSE s)
             ELSE IF (now - s._last_update) >= 2 ^ s._polling_interval
                  THEN WriteNTPPacket(s, o, r)
             ELSE s
    IN  IF a.exc # "none" THEN a
        ELSE IF a._status = "Timedout"
             THEN [SetPollingInterval([a EXCEPT !._last_update = now])
                       EXCEPT !._status = "NotSet"]
        ELSE a

\* update(now).  The first call runs setup(), which registers the socket and calls
\* update(time.time()) itself before the caller's update goes on.
Update(s, now, o, r) ==
    IF ~s._is_setup
    THEN LET a == UpdateBody([s EXCEPT !._is_setup = TRUE], s.clock, o, r)
         IN  IF a.exc # "none" THEN a ELSE UpdateBody(a, now, o, r)
    ELSE UpdateBody(s, now, o, r)

(* ============================== actions ================================ *)
\* What a body is to the handler of a setup push.
Malformed(b) == ~b.json \/ ~(Keys \subseteq b.keys) \/ ~IsIPv4(b.IP)

PushClass(p) ==
    IF p.kind # "request" THEN p.kind
    ELSE IF p.method = "POST" THEN (IF Malformed(p.body) THEN "setup-malformed" ELSE "setup")
    ELSE IF p.method = "DELETE" THEN "teardown"
    ELSE "other"

\* The arguments of a call: the selection S and the device list D of request_devices, the
\* close flag of send_delete, the kind of push of receive_SSE, and whether the session
\* parameters were set when the call began.
\* The pushes after which receive_SSE goes on to shutdown_connection.
PushCloses(p) ==
    \/ p.kind # "request"
    \/ p.method \notin {"POST", "DELETE"}
    \/ p.close /\ ~(p.method = "POST" /\ Malformed(p.body))
ShutsAfter(p) == IF PushCloses(p) THEN ShutOutcomes ELSE {"ok"}

NoArgs == [S |-> {}, D |-> <<>>, close |-> FALSE, push |-> "none", had |-> FALSE, size |-> 0]
PushArgs(p) == [NoArgs EXCEPT !.push = PushClass(p), !.had = mcast_IP # UnsetIP]
\* The answer to POST /client/session is a setup body when do_POST was given it.
RequestArgs(S, D, r, status, body) ==
    [S |-> S, D |-> D, close |-> FALSE,
     push |-> IF r.statuses # <<>> /\ status >= 200 /\ status < 300
              THEN (IF Malformed(body) THEN "setup-malformed" ELSE "setup")
              ELSE "none",
     had |-> mcast_IP # UnsetIP, size |-> 0]

\* The control connection as a call finds it.
Pre == [ctrl |-> ctrl, http |-> http, reg |-> reg]
InitPre == [ctrl |-> "none", http |-> "Idle", reg |-> {}]
NoPrev == [op |-> "none", exc |-> "none", reqs |-> <<>>, pre |-> InitPre]

Commit(r, op, args) ==
    /\ ctrl' = r.ctrl
    /\ http' = r.http
    /\ reg' = r.reg
    /\ mcast_IP' = r.mcast_IP
    /\ can_port' = r.can_port
    /\ carla_port' = r.carla_port
    /\ close_connection' = r.close_connection
    /\ command' = r.command
    /\ can' = r.can
    /\ carla' = r.carla
    /\ listen' = r.listen
    /\ src' = r.src
    /\ dropped_messages' = r.dropped_messages
    /\ timeouts' = r.timeouts
    /\ can_timeout' = r.can_timeout
    /\ UNCHANGED timeVars
    /\ call' = [op |-> op, args |-> args, pre |-> Pre, exc |-> r.exc, ret |-> r.ret,
                val |-> r.val, reqs |-> r.reqs, statuses |-> r.statuses,
                attempts |-> r.attempts, reads |-> r.reads, ran |-> r.ran]
    /\ prev' = IF call.op = "stop" /\ op = "stop"
               THEN [op |-> "stop", exc |-> call.exc, reqs |-> call.reqs, pre |-> call.pre]
               ELSE NoPrev
    /\ UNCHANGED <<selector_lock, server_address, thr, lockOwner, readable>>

IdleThread == [pc |-> "idle", op |-> "none", close |-> FALSE]

\* A handle built with a Lock and any address, or the handle of SSS3.__init__: the address
\* argument became the lock, and the address is the default, the host name.
Init ==
    /\ selector_lock \in {"Lock", "str"}
    /\ server_address \in {"valid", "invalid"}
    /\ selector_lock = "str" => server_address = "valid"
    /\ ctrl = "none"
    /\ http = "Idle"
    /\ reg = {}
    /\ mcast_IP = UnsetIP
    /\ can_port = 0
    /\ carla_port = 0
    /\ close_connection = FALSE
    /\ command = "none"
    /\ can = "open"
    /\ carla = "open"
    /\ listen = TRUE
    /\ src = <<>>
    /\ call = [op |-> "init", args |-> NoArgs, pre |-> InitPre, exc |-> "none", ret |-> "None",
               val |-> <<>>, reqs |-> <<>>, statuses |-> <<>>, attempts |-> 0, reads |-> <<>>,
               ran |-> <<>>]
    /\ prev = NoPrev
    /\ dropped_messages = 0
    /\ timeouts = 0
    /\ can_timeout = 0
    /\ TimeIdle
    /\ thr = [t \in Threads |-> IdleThread]
    /\ lockOwner = 0
    /\ readable = FALSE

\* The inputs that a call can read: a wait is reached only after a write that succeeded with
\* a Lock, a status only after a wait that ended ready, a body only after a status that
\* makes the method read it.
WaitsAfter(o) == IF o = "ok" /\ selector_lock = "Lock" THEN WaitOutcomes ELSE {"ready"}
StatusesAfter(o, w) == IF o = "ok" /\ w = "ready" /\ selector_lock = "Lock" THEN Statuses ELSE {200}

BrokerConnect ==
    \E c1 \in {"ok", "OSError"} :
        Commit(Connect(Cur, c1, c1), "connect", NoArgs)

BrokerRegister ==
    \E o1 \in SendOutcomes : \E w1 \in WaitsAfter(o1) : \E status1 \in StatusesAfter(o1, w1) :
    \E o2 \in (IF status1 \in {199, 400} THEN SendOutcomes ELSE {"ok"}) :
    \E w2 \in WaitsAfter(o2) : \E status2 \in StatusesAfter(o2, w2) :
        Commit(Register(Cur, o1, w1, status1, o2, w2, status2), "register", NoArgs)

BrokerGetDevices ==
    \E o \in SendOutcomes : \E w \in WaitsAfter(o) : \E status \in StatusesAfter(o, w) :
    \E body \in (IF status \in {200, 300} /\ o = "ok" /\ w = "ready" /\ selector_lock = "Lock"
                 THEN DeviceBodies ELSE {[kind |-> "notjson", items |-> <<>>]}) :
        Commit(GetDevices(Cur, o, w, status, body), "get_devices", NoArgs)

\* One descriptor is offered here; RequestSelected below ranges over the device lists.
BrokerRequestDevices ==
    \E S \in SUBSET {OneDevice.ID} : \E D \in {<<OneDevice>>} :
    \E o \in SendOutcomes : \E w \in WaitsAfter(o) : \E status \in StatusesAfter(o, w) :
    \E body \in (IF status = 200 /\ o = "ok" /\ w = "ready" /\ selector_lock = "Lock"
                 THEN Bodies ELSE {NoBody}) :
        LET r == RequestDevices(Cur, S, D, o, w, status, body) IN
        Commit(r, "request_devices", RequestArgs(S, D, r, status, body))

\* receive_SSE(key) and shutdown_connection(key) take a key of the selector: the control
\* socket is registered.
BrokerReceiveSSE ==
    /\ "ctrl" \in reg
    /\ \E p \in Pushes : \E shut \in ShutsAfter(p) :
        Commit(ReceiveSSE(Cur, p, shut), "receive_SSE", PushArgs(p))

BrokerShutdownConnection ==
    /\ "ctrl" \in reg
    /\ \E shut \in ShutOutcomes :
        Commit(ShutdownConnection(Cur, "ctrl", shut), "shutdown_connection", NoArgs)

BrokerSendDelete ==
    \E path \in {"/session", "/client/register"} : \E close \in BOOLEAN :
    \E o \in SendOutcomes : \E w \in WaitsAfter(o) : \E status \in StatusesAfter(o, w) :
    \E shut \in (IF close THEN ShutOutcomes ELSE {"ok"}) :
        Commit(SendDelete(Cur, path, close, o, w, status, shut), "send_delete",
               [NoArgs EXCEPT !.close = close, !.had = mcast_IP # UnsetIP])

\* The controller owns the handle that SSS3.__init__ built: its lock is the str.
SSS3Setup ==
    /\ selector_lock = "str"
    /\ \E c1 \in {"ok", "OSError"} : \E o1 \in SendOutcomes :
        Commit(Setup(Cur, c1, c1, o1, "ready", 200, "ok", "ready", 200, "ok", "ready", 200,
                     [kind |-> "notjson", items |-> <<>>]), "setup", NoArgs)

SSS3SelectDevices ==
    /\ selector_lock = "str"
    /\ \E g \in {[ret |-> "None", val |-> <<>>], [ret |-> "dict", val |-> <<>>]}
              \cup {[ret |-> "list", val |-> D] : D \in {<<>>, <<OneDevice>>}} :
        Commit(SelectDevices(Cur, g.ret, g.val), "select_devices", [NoArgs EXCEPT !.D = g.val])

SSS3RequestDevicesCall ==
    /\ selector_lock = "str"
    /\ \E S \in SUBSET {OneDevice.ID} :
        Commit(SSS3RequestDevices(Cur, S), "sss3_request_devices", NoArgs)

SSS3ReceiveSSE ==
    /\ selector_lock = "str"
    /\ "ctrl" \in reg
    /\ \E p \in Pushes : \E shut \in ShutsAfter(p) \cup (IF p.method = "DELETE" THEN ShutOutcomes ELSE {}) :
       \E o1 \in (IF p.kind = "request" /\ p.method = "DELETE" THEN SendOutcomes ELSE {"ok"}) :
       \E o2 \in (IF p.kind = "request" /\ p.method = "DELETE" THEN SendOutcomes ELSE {"ok"}) :
        Commit(ReceiveSSECallback(Cur, p, shut, o1, o2, "ok", "ok"), "sss3_receive_SSE",
               PushArgs(p))

SSS3Start ==
    /\ selector_lock = "str"
    /\ Commit(Start(Cur), "start", NoArgs)

SSS3Stop ==
    /\ selector_lock = "str"
    /\ \E o1 \in SendOutcomes : \E o2 \in SendOutcomes : \E shut \in ShutOutcomes :
        Commit(Stop(Cur, o1, "ready", 200, o2, "ready", 200, shut, "ok", "ok"), "stop", NoArgs)

\* One call of __listen.  events: the keys of the poll that ends the call, none when
\* KeyboardInterrupt ends it.
SSS3Listen ==
    /\ selector_lock = "str"
    /\ \E events \in {{}, reg} :
        Commit(Listen(Cur, events), "listen", NoArgs)

\* receive(key): a timeout needs a socket that has one, and is counted up to MaxTimeouts.
SSS3Receive ==
    /\ selector_lock = "str"
    /\ \E e \in ReceiveEvents :
        /\ e.kind = "timeout" => (can_timeout > 0 /\ timeouts < MaxTimeouts)
        /\ Commit(Receive(Cur, e), "receive", [NoArgs EXCEPT !.push = e.kind, !.size = e.size])

SSS3Send ==
    /\ selector_lock = "str"
    /\ Commit(Send(Cur), "send", NoArgs)

TimeCommit(r, op, now, p) ==
    /\ clock' = r.clock
    /\ _is_setup' = r._is_setup
    /\ _ip_translated' = r._ip_translated
    /\ _server' = r._server
    /\ _polling_interval' = r._polling_interval
    /\ _status' = r._status
    /\ _last_sent' = r._last_sent
    /\ _last_update' = r._last_update
    /\ _buffer' = r._buffer
    /\ _index' = r._index
    /\ _previous_clock_update' = r._previous_clock_update
    /\ _offset' = r._offset
    /\ tcall' = [op |-> op, now |-> now, packet |-> p, exc |-> r.exc, sent |-> r.sent,
                 pui |-> r.pui, used |-> r.used, peer_update |-> r.peer_update,
                 pre |-> TimePre]
    /\ UNCHANGED <<selector_lock, server_address, ctrl, http, reg, mcast_IP, can_port,
                   carla_port, close_connection, command, can, carla, listen, src, call, prev,
                   dropped_messages, timeouts, can_timeout, thr, lockOwner, readable>>

\* One second passes.
TimeTick ==
    /\ clock < MaxClock
    /\ TimeCommit([TCur EXCEPT !.clock = @ + 1], "tick", clock + 1, NoPacket)

\* What sendto can do: gaierror only for a name, never for a numeric address.
SendtoOutcomes == IF _ip_translated THEN {"ok", "OSError"} ELSE {"ok", "OSError", "gaierror"}

\* update(time.time()), as stay_updated calls it.  A timeout is counted up to MaxPolling.
TimeUpdate ==
    /\ _status = "Sent" => _polling_interval < MaxPolling
    /\ \E o \in SendtoOutcomes : \E r \in BOOLEAN :
        /\ (o # "ok" \/ _ip_translated) => r
        /\ TimeCommit(Update(TCur, clock, o, r), "update", clock, NoPacket)

\* The dispatch of readNTPPacket for a datagram on the socket that setup() registered.
TimeRead ==
    /\ _is_setup
    /\ \E p \in Packets : TimeCommit(ReadNTPPacket(TCur, p), "readNTPPacket", clock, p)

Next ==
    \/ BrokerConnect
    \/ BrokerRegister
    \/ BrokerGetDevices
    \/ BrokerRequestDevices
    \/ BrokerReceiveSSE
    \/ BrokerShutdownConnection
    \/ BrokerSendDelete
    \/ SSS3Setup
    \/ SSS3SelectDevices
    \/ SSS3RequestDevicesCall
    \/ SSS3ReceiveSSE
    \/ SSS3Start
    \/ SSS3Stop
    \/ SSS3Listen

Spec == Init /\ [][Next]_vars

(* ============================ properties =============================== *)
Unset == mcast_IP = UnsetIP /\ can_port = 0 /\ carla_port = 0

\* C1: the session parameters are all unset, or all three are the values of one setup body
\* that passed every validation (JSON, the three keys, an IPv4 address); no state holds a
\* part of a body, or parts of two bodies.
C1_ParametersAllOrNothing ==
    \/ Unset /\ src = <<>>
    \/ /\ Len(src) = 1
       /\ src[1] \in Bodies
       /\ ~Malformed(src[1])
       /\ mcast_IP = src[1].IP
       /\ can_port = src[1].CAN_PORT
       /\ carla_port = src[1].CARLA_PORT

\* A setup body with an address that is no IPv4 address was pushed over set parameters.
C1_Witness ==
    /\ call.op = "receive_SSE"
    /\ call.args.push = "setup-malformed"
    /\ call.args.had
    /\ call.exc = "SyntaxError"
    /\ mcast_IP # UnsetIP

Usable(c) == c.ctrl = "open" /\ c.http = "Idle"

\* C3: on a controller whose control socket is registered, a stop() that follows a stop()
\* writes the same teardown requests as the first and
\* returns without raising.
C3_SecondStopIsSafe ==
    (call.op = "stop" /\ prev.op = "stop" /\ "ctrl" \in prev.pre.reg)
    => (call.exc = "none" /\ call.reqs = prev.reqs)

Last(q) == q[Len(q)]

\* C4: on a new connection, register() writes at most two registration requests, the second only after the first
\* failed; it returns True when the last answer has a status in [200, 400), and False after
\* two failures; it does not raise.
C4_RegisterRetriesOnce ==
    (call.op = "register" /\ Usable(call.pre) /\ call.pre.reg = {})
    => /\ call.exc = "none"
       /\ call.ret \in {"True", "False"}
       /\ Len(call.reqs) <= 2
       /\ (call.ret = "True"
           <=> (call.statuses # <<>> /\ Last(call.statuses) >= 200 /\ Last(call.statuses) < 400))
       /\ (call.ret = "False" => call.attempts = 0 /\ Len(call.reqs) + Len(call.statuses) >= 2)

\* C5: connect() makes at most two attempts and returns True or False, never raising; when
\* the connection could not be made, setup() returns without a request.
C5_ConnectRetriesOnce ==
    /\ call.op = "connect"
       => /\ call.exc = "none"
          /\ call.attempts <= 2
          /\ call.ret \in {"True", "False"}
          /\ (call.ret = "False" => call.attempts = 2)
    /\ (call.op = "setup" /\ ctrl \in {"none", "unconnected"})
       => (call.exc = "none" /\ call.reqs = <<>>)

\* C6: on a registered, usable connection, get_devices() returns a list whatever happens: the array of the answer when the status
\* is in [200, 400) and the body is a valid array, the empty list otherwise.
C6_GetDevicesReturnsAList ==
    (call.op = "get_devices" /\ Usable(call.pre) /\ "ctrl" \in call.pre.reg)
    => /\ call.exc = "none"
       /\ call.ret = "list"
       /\ (call.statuses = <<>> => call.val = <<>>)

\* C8: after send_delete(path, close=True) has returned, the control socket is out of the
\* selector and closed and the session parameters are unset, whether the DELETE was sent and
\* answered, the write failed, or the wait failed.
C8_DeleteWithCloseCleansUp ==
    (call.op = "send_delete" /\ call.args.close /\ call.exc = "none")
    => ("ctrl" \notin reg /\ ctrl = "closed" /\ Unset)

\* send_delete(path, True) returned with set parameters at its start and without an answer.
C8_Witness ==
    /\ call.op = "send_delete"
    /\ call.args.close
    /\ call.args.had
    /\ call.exc = "none"
    /\ call.statuses = <<>>
    /\ ctrl = "closed"

Reconnects(op) == op \in {"connect", "setup"}

\* C11: the requests on the control connection are strictly sequential: a call writes a
\* request only when every earlier request on the connection has had its response read, so
\* a call that starts with a response outstanding writes nothing, and within a call (the
\* retry of register, the two send_delete of stop) each request but the last has its
\* response; at most one request is outstanding.
C11_RequestsAreSequential ==
    /\ Len(call.reqs) <= Len(call.statuses) + 1
    /\ (call.pre.http = "Busy" /\ ~Reconnects(call.op)) => call.reqs = <<>>

\* stop() wrote DELETE /session, got no response, and its second request was refused.
C11_Witness ==
    /\ call.op = "stop"
    /\ call.pre.http = "Idle"
    /\ Len(call.reqs) = 1
    /\ call.statuses = <<>>
    /\ call.ran = <<"stop">>

\* C12: a registration of a handle that is already in the registration table fails with
\* KeyError and leaves the table as it was.  A register() that finds the control socket
\* registered and writes its request ends with KeyError and the table it started with; a
\* register() that registered the socket itself and retries ends with KeyError at the
\* second registration, and the table holds the entry of the first.
C12_DuplicateRegistrationFails ==
    /\ (call.op = "register" /\ "ctrl" \in call.pre.reg /\ call.reqs # <<>>)
           => (call.exc = "KeyError" /\ reg = call.pre.reg /\ Len(call.reqs) = 1)
    /\ (call.op = "register" /\ "ctrl" \notin call.pre.reg /\ Len(call.reqs) = 2)
           => (call.exc = "KeyError" /\ reg = call.pre.reg \cup {"ctrl"})

\* The retry of register() tried to register the control socket a second time.
C12_Witness ==
    /\ call.op = "register"
    /\ call.pre.reg = {}
    /\ Len(call.reqs) = 2
    /\ call.exc = "KeyError"
    /\ reg = {"ctrl"}

\* C15: the callback of a push whose method is neither POST nor DELETE changes none of the
\* session parameters, enters neither start() nor stop() (the listen flag stays as it was),
\* and writes no request.
C15_UnsupportedPushIsIgnored ==
    [][(call'.op = "sss3_receive_SSE" /\ call'.args.push = "other")
           => (/\ UNCHANGED <<mcast_IP, can_port, carla_port, listen>>
               /\ call'.ran = <<>>
               /\ call'.reqs = <<>>)]_vars

\* C16: when the callback of a teardown push (DELETE) has ended, mcast_IP is the unset
\* sentinel, both ports are 0, and the callback has run stop().
C16_TeardownPushResetsAndStops ==
    (call.op = "sss3_receive_SSE" /\ call.args.push = "teardown")
        => (Unset /\ "stop" \in {call.ran[k] : k \in 1..Len(call.ran)})

\* C17: a stop() on a controller whose control connection is open closes and unregisters
\* both multicast sockets, writes DELETE /session and then DELETE /client/register, and
\* returns with the control socket closed and no socket registered.
C17_TeardownIsOrdered ==
    (call.op = "stop" /\ call.pre.ctrl = "open")
        => (/\ call.exc = "none"
            /\ call.reqs = <<Request("DELETE", "/session", <<>>),
                             Request("DELETE", "/client/register", <<>>)>>
            /\ can = "closed" /\ carla = "closed"
            /\ ctrl = "closed" /\ reg = {})

\* C18: setup() goes through connect, register and the device list in this order and stops
\* at the first step that fails: register is attempted only after a connect that returned
\* True, GET /sss3 is written only after a register that returned True, and after a failed
\* connect no request is written, after a failed register none beyond the two
\* registration requests of register itself.
C18_SetupStopsAtFirstFailure ==
    call.op = "setup" =>
        LET t == call.ran
            Paths == {call.reqs[k].path : k \in 1..Len(call.reqs)}
        IN  /\ \A k \in 1..Len(t) :
                 /\ t[k] \in {"connect", "connect failed"} => k = 1
                 /\ t[k] \in {"register", "register failed"} => (k = 2 /\ t[1] = "connect")
                 /\ t[k] = "get_devices" => (k = 3 /\ t[2] = "register")
            /\ t # <<>>
            /\ t[1] = "connect failed" => call.reqs = <<>>
            /\ "/sss3" \in Paths => (Len(t) = 3 /\ t[2] = "register")
            /\ (Len(t) = 2 /\ t[2] = "register failed")
                   => (Paths \subseteq {"/client/register"} /\ Len(call.reqs) <= 2)

\* setup() connected, wrote its registration request, and ended at the failed register.
C18_Witness ==
    /\ call.op = "setup"
    /\ call.ran = <<"connect", "register failed">>
    /\ Len(call.reqs) = 1
    /\ call.reqs[1].path = "/client/register"

\* The steps that a call of the controller entered.
Entered(c) == {c.ran[k] : k \in 1..Len(c.ran)}

\* C19: when a data-plane start fails, the call that made it goes through the teardown of
\* stop(), and afterwards neither multicast socket is open or registered.
C19_FailedStartTearsDown ==
    (call.op \in {"start", "sss3_receive_SSE"} /\ "start" \in Entered(call) /\ call.exc # "none")
        => (/\ "stop" \in Entered(call)
            /\ can = "closed" /\ carla = "closed"
            /\ reg \cap {"can", "carla"} = {})

\* C20: a call of __listen ends by the cleared flag or by the interrupt of the operator and
\* never by an exception of a dispatch, and it leaves every socket open and registered as
\* it found it.
C20_ListenEndsOnlyByFlagOrInterrupt ==
    [][call'.op = "listen" => (call'.exc = "none" /\ UNCHANGED <<ctrl, can, carla, reg>>)]_vars

\* C21: a session request of the controller does not fail: __request_devices returns, after
\* a new selection when the broker refused the devices; and a __select_devices on a list
\* that is not empty returns having entered the wait for the setup push exactly once.
C21_ReselectionEndsInOneWait ==
    /\ call.op = "sss3_request_devices" => call.exc = "none"
    /\ (call.op = "select_devices" /\ call.args.D # <<>>)
           => (/\ call.exc = "none"
               /\ Cardinality({k \in 1..Len(call.ran) : call.ran[k] = "listen"}) = 1)

(* ============================ the data plane =========================== *)
\* The controller after construction; its CAN socket blocks, as socket.socket leaves it
\* (line 56), or has the timeout that __set_mcast_options gives a socket (line 182).
InitData ==
    /\ selector_lock = "str"
    /\ server_address = "valid"
    /\ ctrl = "none"
    /\ http = "Idle"
    /\ reg = {}
    /\ mcast_IP = UnsetIP
    /\ can_port = 0
    /\ carla_port = 0
    /\ close_connection = FALSE
    /\ command = "none"
    /\ can = "open"
    /\ carla = "open"
    /\ listen = TRUE
    /\ src = <<>>
    /\ call = [op |-> "init", args |-> NoArgs, pre |-> InitPre, exc |-> "none", ret |-> "None",
               val |-> <<>>, reqs |-> <<>>, statuses |-> <<>>, attempts |-> 0, reads |-> <<>>,
               ran |-> <<>>]
    /\ prev = NoPrev
    /\ dropped_messages = 0
    /\ timeouts = 0
    /\ can_timeout \in {0, LongTimeout}
    /\ TimeIdle
    /\ thr = [t \in Threads |-> IdleThread]
    /\ lockOwner = 0
    /\ readable = FALSE

NextData ==
    \/ SSS3Receive
    \/ SSS3Send
    \/ SSS3Setup
    \/ SSS3ReceiveSSE
    \/ SSS3Start
    \/ SSS3Stop
    \/ SSS3Listen

SpecData == InitData /\ [][NextData]_vars

\* C13: a receive() that meets a datagram whose length is not 20 bytes does not decode it,
\* and leaves dropped_messages, timeouts and the timeout of the socket as they were.
C13_OnlyFramesAreDecoded ==
    [][(call'.op = "receive" /\ call'.args.push = "datagram" /\ call'.args.size # FrameSize)
           => (call'.ret # "decoded"
               /\ UNCHANGED <<dropped_messages, timeouts, can_timeout>>)]_vars

\* C14: a receive() that times out adds exactly one to timeouts and one to
\* dropped_messages and does not raise; no other step of the controller changes either
\* counter; the two counters are equal in every state.
C14_TimeoutsCountedOnce ==
    [][/\ IF call'.op = "receive" /\ call'.args.push = "timeout"
          THEN /\ timeouts' = timeouts + 1
               /\ dropped_messages' = dropped_messages + 1
               /\ call'.exc = "none"
          ELSE UNCHANGED <<dropped_messages, timeouts>>
       /\ dropped_messages' = timeouts']_vars

\* Three receive() calls have timed out.
C14_Witness ==
    /\ call.op = "receive"
    /\ call.args.push = "timeout"
    /\ timeouts = 3
    /\ dropped_messages = 3

\* C22: every receive() that times out leaves the timeout of the CAN socket strictly smaller
\* than it was, and no other step makes it larger.
C22_TimeoutIsTightened ==
    [][IF call'.op = "receive" /\ call'.args.push = "timeout"
       THEN can_timeout' < can_timeout
       ELSE can_timeout' <= can_timeout]_vars

(* ============================ the time client ========================== *)
InitTimeClient ==
    /\ selector_lock = "Lock"
    /\ server_address = "valid"
    /\ ctrl = "none"
    /\ http = "Idle"
    /\ reg = {}
    /\ mcast_IP = UnsetIP
    /\ can_port = 0
    /\ carla_port = 0
    /\ close_connection = FALSE
    /\ command = "none"
    /\ can = "open"
    /\ carla = "open"
    /\ listen = TRUE
    /\ src = <<>>
    /\ call = [op |-> "init", args |-> NoArgs, pre |-> InitPre, exc |-> "none", ret |-> "None",
               val |-> <<>>, reqs |-> <<>>, statuses |-> <<>>, attempts |-> 0, reads |-> <<>>,
               ran |-> <<>>]
    /\ prev = NoPrev
    /\ dropped_messages = 0
    /\ timeouts = 0
    /\ can_timeout = 0
    /\ thr = [t \in Threads |-> IdleThread]
    /\ lockOwner = 0
    /\ readable = FALSE
    /\ InitTime

NextTime ==
    \/ TimeTick
    \/ TimeUpdate
    \/ TimeRead

SpecTime == InitTimeClient /\ [][NextTime]_vars

\* A readNTPPacket that accepted its packet and chose a peer update.
Chose(c) == c.op = "readNTPPacket" /\ c.pui >= 0

\* C23: after an accepted response the entry chosen is at least as recent as the entry
\* chosen before, and has the lowest delay of all entries that are; the clock offset grows by
\* the value returned, and that value is 0 when the entry chosen was marked Used already.
C23_LowestDelayAmongRecent ==
    Chose(tcall) =>
        /\ _buffer[tcall.pui].Time >= tcall.pre._previous_clock_update
        /\ \A i \in 0..(BufferSize - 1) :
               _buffer[i].Time >= tcall.pre._previous_clock_update
                   => _buffer[tcall.pui].Delay <= _buffer[i].Delay
        /\ tcall.used => tcall.peer_update = 0
        /\ _offset = tcall.pre._offset + tcall.peer_update

\* The entries of the buffer that a call changed.
Written(c) == {i \in 0..(BufferSize - 1) : _buffer[i] # c.pre._buffer[i]}

\* C24: readNTPPacket accepts a packet only when the status is Sent and the packet comes
\* from the address of the chosen server.  Any other packet leaves the status, the offset,
\* the buffer, the index, the time of the last update and the polling interval as they
\* were; an accepted packet changes no entry of the buffer but the one at the index, and
\* moves the index on by 1 modulo 8; the index is in 0..7.
C24_OnlySolicitedPacketsAccepted ==
    /\ _index \in 0..(BufferSize - 1)
    /\ tcall.op = "readNTPPacket" =>
         IF tcall.pre._status = "Sent" /\ tcall.packet.addr = "server" /\ _server = "ip"
         THEN /\ tcall.exc = "none"
              /\ Written(tcall) \subseteq {tcall.pre._index}
              /\ _index = (tcall.pre._index + 1) % BufferSize
         ELSE /\ tcall.exc = "none"
              /\ _status = tcall.pre._status
              /\ _offset = tcall.pre._offset
              /\ _buffer = tcall.pre._buffer
              /\ _index = tcall.pre._index
              /\ _last_update = tcall.pre._last_update
              /\ _polling_interval = tcall.pre._polling_interval

\* C25: update() does not raise and never leaves the status Timedout; it writes a request
\* only when the status was not Sent and at least 2^polling_interval seconds have passed
\* since the last update, and at most one; when it finds a request that has been
\* unanswered for 3 seconds or more it adds 1 to the polling exponent and sets the status
\* to NotSet.
C25_UpdateKeepsOneRequest ==
    tcall.op = "update" =>
        /\ tcall.exc = "none"
        /\ _status # "Timedout"
        /\ tcall.sent <= 1
        /\ tcall.sent = 1 =>
              (/\ tcall.pre._status # "Sent"
               /\ tcall.now - tcall.pre._last_update >= 2 ^ tcall.pre._polling_interval)
        /\ (tcall.pre._status = "Sent" /\ tcall.now - tcall.pre._last_sent >= RequestTimeout)
              => (/\ _status = "NotSet"
                  /\ _polling_interval = tcall.pre._polling_interval + 1)

(* ================= request_devices over device lists =================== *)
\* The handle after connect(), register() and a get_devices() that returned the list D.
InitRequest ==
    /\ selector_lock = "Lock"
    /\ server_address = "valid"
    /\ ctrl = "open"
    /\ http = "Idle"
    /\ reg = {"ctrl"}
    /\ mcast_IP = UnsetIP
    /\ can_port = 0
    /\ carla_port = 0
    /\ close_connection = FALSE
    /\ command = "none"
    /\ can = "open"
    /\ carla = "open"
    /\ listen = TRUE
    /\ src = <<>>
    /\ \E D \in DeviceLists :
        call = [op |-> "get_devices", args |-> [NoArgs EXCEPT !.D = D],
                pre |-> [ctrl |-> "open", http |-> "Idle", reg |-> {"ctrl"}],
                exc |-> "none", ret |-> "list", val |-> D,
                reqs |-> <<Request("GET", "/sss3", <<>>)>>, statuses |-> <<200>>,
                attempts |-> 0, reads |-> <<[sock |-> "ctrl", state |-> "open"]>>,
                ran |-> <<>>]
    /\ prev = NoPrev
    /\ dropped_messages = 0
    /\ timeouts = 0
    /\ can_timeout = 0
    /\ TimeIdle
    /\ thr = [t \in Threads |-> IdleThread]
    /\ lockOwner = 0
    /\ readable = FALSE

\* The answers to the session request: a setup body, and bytes that are no JSON.
AnswerBodies ==
    {NoBody, [json |-> TRUE, keys |-> Keys, IP |-> 1, CAN_PORT |-> MaxPort, CARLA_PORT |-> MaxPort]}

\* request_devices(S, D) with a selection S of IDs and the list D that get_devices returned.
RequestSelected ==
    \E S \in SUBSET (1..NumIDs) :
    \E o \in SendOutcomes : \E w \in WaitsAfter(o) : \E status \in StatusesAfter(o, w) :
    \E body \in (IF status = 200 /\ o = "ok" /\ w = "ready" THEN AnswerBodies ELSE {NoBody}) :
        LET D == call.args.D
            r == RequestDevices(Cur, S, D, o, w, status, body)
        IN  Commit(r, "request_devices", RequestArgs(S, D, r, status, body))

NextRequest == RequestSelected

SpecRequest == InitRequest /\ [][NextRequest]_vars

\* e is what remains of D when the descriptors with an ID outside S are struck out.
IsSelection(e, D, S) ==
    LET idx == {k \in 1..Len(D) : D[k].ID \in S} IN
    /\ Len(e) = Cardinality(idx)
    /\ \E f \in [1..Len(e) -> idx] :
        /\ \A j, k \in 1..Len(e) : j < k => f[j] < f[k]
        /\ \A k \in 1..Len(e) : e[k] = D[f[k]]

\* C7: the one request that request_devices(S, D) writes is POST /client/session, and its
\* body is the subsequence of D of the descriptors whose ID is in S, in the order of D,
\* duplicates kept.
C7_RequestIsTheSelection ==
    (call.op = "request_devices" /\ call.reqs # <<>>)
    => /\ Len(call.reqs) = 1
       /\ call.reqs[1].method = "POST"
       /\ call.reqs[1].path = "/client/session"
       /\ IsSelection(call.reqs[1].ecus, call.args.D, call.args.S)

\* Two descriptors with different IDs were offered and the second alone was requested.
C7_Witness ==
    /\ call.op = "request_devices"
    /\ Len(call.args.D) = 2
    /\ call.args.D[1].ID # call.args.D[2].ID
    /\ call.args.S = {call.args.D[2].ID}
    /\ Len(call.reqs) = 1
    /\ call.reqs[1].ecus = <<call.args.D[2]>>

(* ======================= selector_lock and threads ===================== *)
\* The statements of BrokerHandle that take selector_lock, one step each, run by two
\* threads on one handle built with a Lock.
ThreadFrame ==
    /\ UNCHANGED <<selector_lock, server_address, mcast_IP, can_port, carla_port,
                close_connection, command, can, carla, listen, src, call, prev,
                dropped_messages, timeouts, can_timeout>>
    /\ UNCHANGED timeVars

At(t, pc) == thr[t].pc = pc
Goto(t, pc) == thr' = [thr EXCEPT ![t].pc = pc]

\* connect(): a new connection object with a new socket
ThreadConnect ==
    \E t \in Threads :
        /\ At(t, "idle")
        /\ ctrl' = "open"
        /\ http' = "Idle"
        /\ reg' = reg \ {"ctrl"}
        /\ UNCHANGED <<thr, lockOwner, readable>>
        /\ ThreadFrame

\* The write of register() (with sel.register, which takes no lock) or of get_devices();
\* the method goes on to __wait_for_socket.
ThreadRequest ==
    \E t \in Threads : \E op \in {"register", "get_devices"} :
        /\ At(t, "idle")
        /\ ctrl = "open"
        /\ http = "Idle"
        /\ http' = "Busy"
        /\ IF op = "register" /\ "ctrl" \in reg
           THEN UNCHANGED <<reg, thr>>
           ELSE /\ reg' = IF op = "register" THEN reg \cup {"ctrl"} ELSE reg
                /\ thr' = [thr EXCEPT ![t] = [pc |-> "wait_with", op |-> op, close |-> FALSE]]
        /\ UNCHANGED <<ctrl, lockOwner, readable>>
        /\ ThreadFrame

\* Line 225 of send_delete: the write; an exception takes the call to the finally clause.
ThreadSendDelete ==
    \E t \in Threads : \E close \in BOOLEAN :
        /\ At(t, "idle")
        /\ ctrl # "none"
        /\ IF ctrl = "open" /\ http = "Idle"
           THEN /\ http' = "Busy"
                /\ thr' = [thr EXCEPT ![t] = [pc |-> "sd_with", op |-> "send_delete", close |-> close]]
           ELSE /\ http' = http
                /\ thr' = [thr EXCEPT ![t] = [pc |-> "sd_finally", op |-> "send_delete", close |-> close]]
        /\ UNCHANGED <<ctrl, reg, lockOwner, readable>>
        /\ ThreadFrame

\* `with self.selector_lock:` in line 226 of send_delete and in line 61 of __wait_for_socket
ThreadAcquire ==
    \E t \in Threads :
        /\ thr[t].pc \in {"sd_with", "wait_with"}
        /\ lockOwner = 0
        /\ lockOwner' = t
        /\ Goto(t, IF At(t, "sd_with") THEN "sd_modify" ELSE "wait_select")
        /\ UNCHANGED <<ctrl, http, reg, readable>>
        /\ ThreadFrame

\* Line 227: sel.modify under the lock (KeyError when the socket is not registered, which
\* the finally clause discards), then the end of the with block.
ThreadModify ==
    \E t \in Threads :
        /\ At(t, "sd_modify")
        /\ lockOwner' = 0
        /\ Goto(t, IF "ctrl" \in reg THEN "wait_with" ELSE "sd_finally")
        /\ UNCHANGED <<ctrl, http, reg, readable>>
        /\ ThreadFrame

\* Line 62: sel.select(timeout) returns, under the lock, once a registered socket is
\* readable; the with block ends.
ThreadSelect ==
    \E t \in Threads :
        /\ At(t, "wait_select")
        /\ readable
        /\ reg # {}
        /\ lockOwner' = 0
        /\ Goto(t, "getresponse")
        /\ UNCHANGED <<ctrl, http, reg, readable>>
        /\ ThreadFrame

\* Lines 63-64: KeyboardInterrupt, delivered to the main thread, ends the select.
ThreadInterrupt ==
    /\ At(1, "wait_select")
    /\ lockOwner' = 0
    /\ thr' = [thr EXCEPT ![1] = IF thr[1].op = "send_delete"
                                 THEN [thr[1] EXCEPT !.pc = "sd_finally"] ELSE IdleThread]
    /\ UNCHANGED <<ctrl, http, reg, readable>>
    /\ ThreadFrame

\* getresponse() and read() after a wait that returned True
ThreadGetResponse ==
    \E t \in Threads :
        /\ At(t, "getresponse")
        /\ http' = "Idle"
        /\ readable' = FALSE
        /\ thr' = [thr EXCEPT ![t] = IF thr[t].op = "send_delete"
                                     THEN [thr[t] EXCEPT !.pc = "sd_finally"] ELSE IdleThread]
        /\ UNCHANGED <<ctrl, reg, lockOwner>>
        /\ ThreadFrame

\* The finally clause of send_delete: with close, get_key, shutdown_connection and do_DELETE
\* (the parameters are unset already).
ThreadFinally ==
    \E t \in Threads :
        /\ At(t, "sd_finally")
        /\ IF thr[t].close /\ "ctrl" \in reg
           THEN reg' = reg \ {"ctrl"} /\ ctrl' = "closed"
           ELSE UNCHANGED <<reg, ctrl>>
        /\ thr' = [thr EXCEPT ![t] = IdleThread]
        /\ UNCHANGED <<http, lockOwner, readable>>
        /\ ThreadFrame

\* The broker answers the request under way.
BrokerAnswers ==
    /\ http = "Busy"
    /\ ctrl = "open"
    /\ "ctrl" \in reg
    /\ ~readable
    /\ readable' = TRUE
    /\ UNCHANGED <<ctrl, http, reg, thr, lockOwner>>
    /\ ThreadFrame

InitThreads == Init /\ selector_lock = "Lock" /\ server_address = "valid"

NextThreads ==
    \/ ThreadConnect
    \/ ThreadRequest
    \/ ThreadSendDelete
    \/ ThreadAcquire
    \/ ThreadModify
    \/ ThreadSelect
    \/ ThreadInterrupt
    \/ ThreadGetResponse
    \/ ThreadFinally
    \/ BrokerAnswers

SpecThreads == InitThreads /\ [][NextThreads]_vars

\* C10: selector_lock is held only while the registration table is changed, never across
\* the blocking readiness wait: no thread stands at `with self.selector_lock` while the
\* holder of the lock is blocked in select.
C10_LockOnlyAroundMutation ==
    /\ \A t \in Threads : lockOwner = t => At(t, "sd_modify")
    /\ \A t, u \in Threads :
        (At(t, "wait_select") /\ lockOwner = t) => thr[u].pc \notin {"sd_with", "wait_with"}

====
